---- MODULE Spec2Model ----
(***************************************************************************)
(* Model of the turn-based battle simulator (battle_sim.py).               *)
(*                                                                         *)
(* A Python dict is a function whose DOMAIN is its key set.  Dict objects  *)
(* live in `heap`, addressed by object name, so that copying (dict(x)) and *)
(* in-place mutation (_apply_kills) are distinguishable from aliasing.     *)
(* Probabilities are kept as the integer percentages of UnitDef; the code  *)
(* divides by 100.0 and the only comparisons it makes (p <= 0, clamping to *)
(* [0,1]) are exact at 0 and 100.  A numpy draw is a nondeterministic      *)
(* choice over the outcomes the distribution supports.                     *)
(***************************************************************************)
EXTENDS Integers, Sequences, FiniteSets, TLC

\* ---------------------------------------------------------------- bounds
\* Largest total size (sum of counts) of an input army.
MaxArmySize == 2
\* Largest max_rounds argument tried (the smallest is -1).
MaxRounds == 2

\* ------------------------------------------------------- unit definitions
\* The unit types modelled: two rows of default_units.  Both are keys of
\* default_units, so the lookups default_units[unit_type] of lines 105 and
\* 130 always succeed.
UnitTypes == {"Peasants", "Knights"}

\* default_units as the module defines it (attack, defense in percent).
DefaultUnits ==
  [Peasants |-> [attack |-> 5, defense |-> 10],
   Knights  |-> [attack |-> 60, defense |-> 60]]

\* An alternate catalog a caller may pass as unit_defs: the same names with
\* the boundary percentages.
AltUnits ==
  [Peasants |-> [attack |-> 0, defense |-> 0],
   Knights  |-> [attack |-> 100, defense |-> 100]]

\* The catalogs tried as the unit_defs argument / as the table in force.
Catalogs == {DefaultUnits, AltUnits}

\* ------------------------------------------------------------------ dicts
EmptyDict == [t \in {} |-> 0]

\* dict.get(key, 0)
Get(d, t) == IF t \in DOMAIN d THEN d[t] ELSE 0

\* The dict d restricted to the keys in S.
Restrict(d, S) == [t \in S |-> d[t]]

RECURSIVE SumOver(_, _)
SumOver(d, S) ==
  IF S = {} THEN 0
  ELSE LET t == CHOOSE u \in S : TRUE
       IN d[t] + SumOver(d, S \ {t})

\* sum(d.values())
SumValues(d) == SumOver(d, DOMAIN d)

Min(a, b) == IF a <= b THEN a ELSE b
Max(a, b) == IF a >= b THEN a ELSE b

\* Input armies: any key set over the modelled types, counts >= 0, total size
\* at most MaxArmySize (a caller may pass a present-with-zero entry;
\* make_army never does).
Armies ==
  {a \in UNION {[S -> 0..MaxArmySize] : S \in SUBSET UnitTypes} :
     SumValues(a) <= MaxArmySize}

\* The most hits one side can ever produce: one per attacking unit.
MaxHits == MaxArmySize

army_size(army) == SumValues(army)

\* The list of the source, as a set: draws are nondeterministic, so the
\* iteration order does not change the set of outcomes.
alive_types(army) == {t \in DOMAIN army : army[t] > 0}

\* ------------------------------------------------------ combat resolution
\* Whether _binomial_rng(rng, n, p) consumes a draw (p in percent).
BinomialDraws(n, pct) == IF n <= 0 \/ pct <= 0 THEN 0 ELSE 1

\* The outcomes of _binomial_rng(rng, n, p), p = pct / 100.
_binomial_rng(n, pct) ==
  IF n <= 0 \/ pct <= 0 THEN {0}
  ELSE LET p == Min(Max(pct, 0), 100)
       IN IF p = 100 THEN {n} ELSE 0..n

\* Hits shared out by rounding each category's proportional share down
\* instead of by one multinomial draw.
_multinomial_rng_floor(n, probs) ==
  IF n <= 0 THEN {[t \in DOMAIN probs |-> 0]}
  ELSE IF SumValues(probs) <= 0 THEN {[t \in DOMAIN probs |-> 0]}
  ELSE {[t \in DOMAIN probs |-> (n * probs[t]) \div SumValues(probs)]}

\* The outcomes of _multinomial_rng(rng, n, probs): probs is the weight
\* dict (counts as floats), the result an int per key.
_multinomial_rng(n, probs) ==
  IF n <= 0 THEN {[t \in DOMAIN probs |-> 0]}
  ELSE IF SumValues(probs) <= 0 THEN {[t \in DOMAIN probs |-> 0]}
  ELSE {f \in [DOMAIN probs -> 0..n] :
          /\ SumValues(f) = n
          /\ \A t \in DOMAIN probs : probs[t] = 0 => f[t] = 0}

\* The outcomes of _attacks_to_hits(attacker, rng) with `table` the table
\* the function reads (the module-level default_units).
_attacks_to_hits(attacker, table) ==
  {SumValues(f) :
     f \in {g \in [DOMAIN attacker -> 0..MaxHits] :
              \A t \in DOMAIN attacker :
                 g[t] \in (IF attacker[t] <= 0 THEN {0}
                           ELSE _binomial_rng(attacker[t], table[t].attack))}}

\* The number of draws _attacks_to_hits consumes.
AttackDraws(attacker, table) ==
  Cardinality({t \in DOMAIN attacker :
                 attacker[t] > 0 /\ BinomialDraws(attacker[t], table[t].attack) = 1})

\* The outcomes of _distribute_hits_across_defender(defender, total_hits, rng).
_distribute_hits_across_defender(defender, total_hits) ==
  LET unit_types == alive_types(defender)
  IN IF unit_types = {} \/ total_hits <= 0 THEN {EmptyDict}
     ELSE {Restrict(draws, {t \in unit_types : draws[t] > 0}) :
             draws \in _multinomial_rng(total_hits, Restrict(defender, unit_types))}

\* The number of draws _distribute_hits_across_defender consumes.
DistributeDraws(defender, total_hits) ==
  IF alive_types(defender) = {} \/ total_hits <= 0 THEN 0 ELSE 1

\* The defense percentage itself used as the penetration percentage.
PenPct_direct(defense) == Max(0, defense)

\* The percentage handed to _binomial_rng for penetration: 1 - def_pct,
\* floored at 0.
PenPct(defense) == Max(0, 100 - defense)

\* The outcomes of _defense_resolution(assigned_hits, rng) with `table` the
\* table the function reads.
_defense_resolution(assigned_hits, table) ==
  {Restrict(pen, {t \in DOMAIN assigned_hits : pen[t] > 0}) :
     pen \in {g \in [DOMAIN assigned_hits -> 0..MaxHits] :
                \A t \in DOMAIN assigned_hits :
                   g[t] \in (IF assigned_hits[t] <= 0 THEN {0}
                             ELSE _binomial_rng(assigned_hits[t],
                                                PenPct(table[t].defense)))}}

\* The number of draws _defense_resolution consumes.
DefenseDraws(assigned_hits, table) ==
  Cardinality({t \in DOMAIN assigned_hits :
                 /\ assigned_hits[t] > 0
                 /\ BinomialDraws(assigned_hits[t], PenPct(table[t].defense)) = 1})

\* _apply_kills without the clamp to the available count.
_apply_kills_unclamped(army, kills) ==
  LET hit == {t \in DOMAIN kills : kills[t] > 0 /\ t \in DOMAIN army /\ army[t] > 0}
      after == [t \in DOMAIN army |->
                  IF t \in hit THEN army[t] - kills[t] ELSE army[t]]
  IN [army |-> [t \in {u \in DOMAIN army : u \notin hit \/ after[u] > 0} |-> after[t]],
      actual_kills |-> [t \in hit |-> kills[t]]]

\* _apply_kills reporting the nominal kill count as the casualties.
_apply_kills_nominal(army, kills) ==
  LET hit == {t \in DOMAIN kills : kills[t] > 0 /\ t \in DOMAIN army /\ army[t] > 0}
      after == [t \in DOMAIN army |->
                  IF t \in hit THEN army[t] - Min(kills[t], army[t]) ELSE army[t]]
  IN [army |-> [t \in {u \in DOMAIN army : u \notin hit \/ after[u] > 0} |-> after[t]],
      actual_kills |-> [t \in hit |-> kills[t]]]

\* _apply_kills without the removal of exhausted categories.
_apply_kills_keepzero(army, kills) ==
  LET hit == {t \in DOMAIN kills : kills[t] > 0 /\ t \in DOMAIN army /\ army[t] > 0}
  IN [army |-> [t \in DOMAIN army |->
                  IF t \in hit THEN army[t] - Min(kills[t], army[t]) ELSE army[t]],
      actual_kills |-> [t \in hit |-> Min(kills[t], army[t])]]

\* _apply_kills adding the casualties to the count instead of subtracting.
_apply_kills_signflip(army, kills) ==
  LET hit == {t \in DOMAIN kills : kills[t] > 0 /\ t \in DOMAIN army /\ army[t] > 0}
  IN [army |-> [t \in DOMAIN army |->
                  IF t \in hit THEN army[t] + Min(kills[t], army[t]) ELSE army[t]],
      actual_kills |-> [t \in hit |-> Min(kills[t], army[t])]]

\* The keys _apply_kills acts on: positive kill count, positive availability.
KillKeys(army, kills) ==
  {t \in DOMAIN kills : kills[t] > 0 /\ Get(army, t) > 0}

\* _apply_kills(army, kills): the army after the in-place update and the
\* returned actual casualties.
_apply_kills(army, kills) ==
  LET hit == KillKeys(army, kills)
      after == [t \in DOMAIN army |->
                  IF t \in hit THEN army[t] - Min(kills[t], army[t])
                  ELSE army[t]]
  IN [army |-> Restrict(after, {t \in DOMAIN army : t \notin hit \/ after[t] > 0}),
      actual_kills |-> [t \in hit |-> Min(kills[t], army[t])]]

\* ------------------------------------------------------------------ state
VARIABLES
  heap,           \* dict objects by name: "army_a", "army_b" (caller's), "A", "B"
  A_ref, B_ref,   \* the objects the locals A and B are bound to
  in_a, in_b,     \* the caller's armies as they stood at the call
  unit_defs,      \* argument: the catalog passed by the caller
  max_rounds,     \* argument
  default_units,  \* the module-level table
  rounds,         \* the round log
  round_idx,
  a_hits, a_assign, a_kills,
  b_hits, b_assign, b_kills,
  a_deaths, b_deaths,
  draws,          \* the phases that consumed the random source, in order
  summary,
  pc,
  fn_name,        \* function harness: the function called ("none" before)
  fn_in,          \* function harness: its arguments
  fn_out,         \* function harness: its return value
  fn_draws,       \* function harness: the draws the call consumed
  mk_spec,        \* make_army: the items of `spec`, in iteration order
  mk_defs,        \* make_army: the argument unit_defs
  mk_i,           \* make_army: the items the for loop has consumed
  mk_army,        \* make_army: the local `army`
  mk_ret,         \* make_army: the value returned ("unset" while none is)
  mk_pc,          \* make_army: "idle", "loop", "returned" or "raised"
  budget, total_units, costs, props,      \* allocate_with_unit0: arguments
  unit0_share,                            \* argument, in percent
  resource_limit, resource_unit_index,    \* arguments
  unit0, x_paid, budget_left, units_left, \* allocate_with_unit0: locals
  resource_used, changed,
  result,         \* allocate_with_unit0: the dict returned
  al_pc           \* allocate_with_unit0: "idle", "assert", "packages",
                  \* "topup", "done" or "rejected"

vars == <<heap, A_ref, B_ref, in_a, in_b, unit_defs, max_rounds, default_units,
          rounds, round_idx, a_hits, a_assign, a_kills, b_hits, b_assign,
          b_kills, a_deaths, b_deaths, draws, summary, pc,
          fn_name, fn_in, fn_out, fn_draws,
          mk_spec, mk_defs, mk_i, mk_army, mk_ret, mk_pc,
          budget, total_units, costs, props, unit0_share, resource_limit,
          resource_unit_index, unit0, x_paid, budget_left, units_left,
          resource_used, changed, result, al_pc>>

\* The variables of a make_army call.
mkvars == <<mk_spec, mk_defs, mk_i, mk_army, mk_ret, mk_pc>>

\* The arguments of an allocate_with_unit0 call.
al_args == <<budget, total_units, costs, props, unit0_share, resource_limit,
             resource_unit_index>>

\* The variables of an allocate_with_unit0 call.
alvars == <<al_args, unit0, x_paid, budget_left, units_left, resource_used,
            changed, result, al_pc>>

\* Python's None, and an Optional[int] holding n.
None == [is_none |-> TRUE, value |-> 0]
Some(n) == [is_none |-> FALSE, value |-> n]

\* The locals of allocate_with_unit0 before they are bound.
AlUnbound ==
  /\ unit0 = 0
  /\ x_paid = <<>>
  /\ budget_left = 0
  /\ units_left = 0
  /\ resource_used = 0
  /\ changed = FALSE
  /\ result = EmptyDict

\* No allocate_with_unit0 call is under way.
AlIdle ==
  /\ budget = 0 /\ total_units = 0
  /\ costs = <<>> /\ props = <<>>
  /\ unit0_share = 0
  /\ resource_limit = None
  /\ resource_unit_index = 0
  /\ AlUnbound
  /\ al_pc = "idle"

\* No make_army call is under way.
MkIdle ==
  /\ mk_spec = <<>>
  /\ mk_defs = EmptyDict
  /\ mk_i = 0
  /\ mk_army = EmptyDict
  /\ mk_ret = "unset"
  /\ mk_pc = "idle"

\* The locals A and B of simulate_battle.
A == heap[A_ref]
B == heap[B_ref]

\* What no step of simulate_battle assigns: the arguments as passed, the
\* module table, the function harness.
fixed == <<in_a, in_b, unit_defs, max_rounds, default_units,
           fn_name, fn_in, fn_out, fn_draws, mkvars, alvars>>
locals == <<a_hits, a_assign, a_kills, b_hits, b_assign, b_kills, a_deaths, b_deaths>>

NoSummary ==
  [winner |-> "unset", rounds |-> 0, final_A |-> EmptyDict, final_B |-> EmptyDict,
   final_sizes |-> [A |-> 0, B |-> 0]]

\* The harness arguments when no function is under test.
NoCall == [defender |-> EmptyDict, total_hits |-> 0, assigned_hits |-> EmptyDict]

\* A = army_a instead of A = dict(army_a): the local aliases the caller's object.
dict_alias(src, fresh) == src

\* The object dict(src) yields: a new object `fresh`, never src itself.
dict_copy(src, fresh) == fresh

\* The call simulate_battle(army_a, army_b, unit_defs, max_rounds=...) is
\* about to run; default_units is the table of the source.  The round locals
\* are unbound until first assigned; they start here as 0 and {}.
Init ==
  /\ \E a \in Armies, b \in Armies :
       /\ heap = [army_a |-> a, army_b |-> b, A |-> EmptyDict, B |-> EmptyDict]
       /\ in_a = a
       /\ in_b = b
  /\ A_ref = "A"
  /\ B_ref = "B"
  /\ unit_defs \in Catalogs
  /\ max_rounds \in -1..MaxRounds
  /\ default_units = DefaultUnits
  /\ rounds = <<>>
  /\ round_idx = 0
  /\ a_hits = 0 /\ a_assign = EmptyDict /\ a_kills = EmptyDict
  /\ b_hits = 0 /\ b_assign = EmptyDict /\ b_kills = EmptyDict
  /\ a_deaths = EmptyDict /\ b_deaths = EmptyDict
  /\ draws = <<>>
  /\ summary = NoSummary
  /\ pc = "start"
  /\ fn_name = "none"
  /\ fn_in = NoCall
  /\ fn_out = EmptyDict
  /\ fn_draws = 0
  /\ MkIdle
  /\ AlIdle

\* Lines 174-181: A = dict(army_a); B = dict(army_b); rounds = []; round_idx = 0.
Enter ==
  /\ pc = "start"
  /\ A_ref' = dict_copy("army_a", "A")
  /\ B_ref' = dict_copy("army_b", "B")
  /\ heap' = [heap EXCEPT ![A_ref'] = heap["army_a"], ![B_ref'] = heap["army_b"]]
  /\ rounds' = <<>>
  /\ round_idx' = 0
  /\ pc' = "loop"
  /\ UNCHANGED <<fixed, locals, draws, summary>>

\* The while condition with the round test off by one.
LoopCond_inclusive == army_size(A) > 0 /\ army_size(B) > 0 /\ round_idx <= max_rounds

\* The while condition going on while either side is alive.
LoopCond_either == (army_size(A) > 0 \/ army_size(B) > 0) /\ round_idx < max_rounds

\* The while condition of line 183.
LoopCond == army_size(A) > 0 /\ army_size(B) > 0 /\ round_idx < max_rounds

\* Lines 183-184: the loop test holds; round_idx += 1.
EnterRound ==
  /\ pc = "loop"
  /\ LoopCond
  /\ round_idx' = round_idx + 1
  /\ pc' = "a_hits"
  /\ UNCHANGED <<heap, A_ref, B_ref, fixed, rounds, locals, draws, summary>>

\* s followed by n copies of x: one entry per draw consumed.
Append_n(s, x, n) == s \o [i \in 1..n |-> x]

\* Line 188: a_hits = _attacks_to_hits(A, rng).
AHits ==
  /\ pc = "a_hits"
  /\ a_hits' \in _attacks_to_hits(A, default_units)
  /\ draws' = Append_n(draws, "a_hits", AttackDraws(A, default_units))
  /\ pc' = "a_assign"
  /\ UNCHANGED <<heap, A_ref, B_ref, fixed, rounds, round_idx, a_assign, a_kills,
                 b_hits, b_assign, b_kills, a_deaths, b_deaths, summary>>

\* Draws batched across sides: B's hit generation is drawn together with A's
\* distribution, ahead of A's defense resolution.
AAssign_batched ==
  /\ pc = "a_assign"
  /\ a_assign' \in _distribute_hits_across_defender(B, a_hits)
  /\ b_hits' \in _attacks_to_hits(B, default_units)
  /\ draws' = Append_n(Append_n(draws, "a_assign", DistributeDraws(B, a_hits)),
                       "b_hits", AttackDraws(B, default_units))
  /\ pc' = "a_kills"
  /\ UNCHANGED <<heap, A_ref, B_ref, fixed, rounds, round_idx, a_hits, a_kills,
                 b_assign, b_kills, a_deaths, b_deaths, summary>>

\* Line 189: a_assign = _distribute_hits_across_defender(B, a_hits, rng).
AAssign ==
  /\ pc = "a_assign"
  /\ a_assign' \in _distribute_hits_across_defender(B, a_hits)
  /\ draws' = Append_n(draws, "a_assign", DistributeDraws(B, a_hits))
  /\ pc' = "a_kills"
  /\ UNCHANGED <<heap, A_ref, B_ref, fixed, rounds, round_idx, a_hits, a_kills,
                 b_hits, b_assign, b_kills, a_deaths, b_deaths, summary>>

\* Sequential resolution: A's kills are applied to B as soon as they are
\* known, before B's attack phase.
AKills_eager ==
  /\ pc = "a_kills"
  /\ a_kills' \in _defense_resolution(a_assign, default_units)
  /\ draws' = Append_n(draws, "a_kills", DefenseDraws(a_assign, default_units))
  /\ heap' = [heap EXCEPT ![B_ref] = _apply_kills(B, a_kills').army]
  /\ pc' = "b_hits"
  /\ UNCHANGED <<A_ref, B_ref, fixed, rounds, round_idx, a_hits, a_assign,
                 b_hits, b_assign, b_kills, a_deaths, b_deaths, summary>>

\* Line 190: a_kills = _defense_resolution(a_assign, rng).
AKills ==
  /\ pc = "a_kills"
  /\ a_kills' \in _defense_resolution(a_assign, default_units)
  /\ draws' = Append_n(draws, "a_kills", DefenseDraws(a_assign, default_units))
  /\ pc' = "b_hits"
  /\ UNCHANGED <<heap, A_ref, B_ref, fixed, rounds, round_idx, a_hits, a_assign,
                 b_hits, b_assign, b_kills, a_deaths, b_deaths, summary>>

\* Line 193: b_hits = _attacks_to_hits(B, rng).
BHits ==
  /\ pc = "b_hits"
  /\ b_hits' \in _attacks_to_hits(B, default_units)
  /\ draws' = Append_n(draws, "b_hits", AttackDraws(B, default_units))
  /\ pc' = "b_assign"
  /\ UNCHANGED <<heap, A_ref, B_ref, fixed, rounds, round_idx, a_hits, a_assign,
                 a_kills, b_assign, b_kills, a_deaths, b_deaths, summary>>

\* Line 194: b_assign = _distribute_hits_across_defender(A, b_hits, rng).
BAssign ==
  /\ pc = "b_assign"
  /\ b_assign' \in _distribute_hits_across_defender(A, b_hits)
  /\ draws' = Append_n(draws, "b_assign", DistributeDraws(A, b_hits))
  /\ pc' = "b_kills"
  /\ UNCHANGED <<heap, A_ref, B_ref, fixed, rounds, round_idx, a_hits, a_assign,
                 a_kills, b_hits, b_kills, a_deaths, b_deaths, summary>>

\* Line 195: b_kills = _defense_resolution(b_assign, rng).
BKills ==
  /\ pc = "b_kills"
  /\ b_kills' \in _defense_resolution(b_assign, default_units)
  /\ draws' = Append_n(draws, "b_kills", DefenseDraws(b_assign, default_units))
  /\ pc' = "apply_b"
  /\ UNCHANGED <<heap, A_ref, B_ref, fixed, rounds, round_idx, a_hits, a_assign,
                 a_kills, b_hits, b_assign, a_deaths, b_deaths, summary>>

\* Line 198: a_deaths = _apply_kills(B, a_kills).
ApplyB ==
  /\ pc = "apply_b"
  /\ LET r == _apply_kills(B, a_kills)
     IN /\ heap' = [heap EXCEPT ![B_ref] = r.army]
        /\ a_deaths' = r.actual_kills
  /\ pc' = "apply_a"
  /\ UNCHANGED <<A_ref, B_ref, fixed, rounds, round_idx, a_hits, a_assign, a_kills,
                 b_hits, b_assign, b_kills, b_deaths, draws, summary>>

\* The log records hold the army object A itself rather than a copy of it:
\* the casualties of a later round show in every earlier record.
ApplyA_aliased ==
  /\ pc = "apply_a"
  /\ LET r == _apply_kills(A, b_kills)
     IN /\ heap' = [heap EXCEPT ![A_ref] = r.army]
        /\ b_deaths' = r.actual_kills
        /\ rounds' = [i \in DOMAIN rounds |-> [rounds[i] EXCEPT !.A.army = r.army]]
  /\ pc' = "report"
  /\ UNCHANGED <<A_ref, B_ref, fixed, round_idx, a_hits, a_assign, a_kills,
                 b_hits, b_assign, b_kills, a_deaths, draws, summary>>

\* Line 199: b_deaths = _apply_kills(A, b_kills).
ApplyA ==
  /\ pc = "apply_a"
  /\ LET r == _apply_kills(A, b_kills)
     IN /\ heap' = [heap EXCEPT ![A_ref] = r.army]
        /\ b_deaths' = r.actual_kills
  /\ pc' = "report"
  /\ UNCHANGED <<A_ref, B_ref, fixed, rounds, round_idx, a_hits, a_assign, a_kills,
                 b_hits, b_assign, b_kills, a_deaths, draws, summary>>

\* Lines 201-219: the round_report dict.
round_report ==
  [round |-> round_idx,
   A |-> [size_end |-> army_size(A), hits |-> a_hits, assigned_hits |-> a_assign,
          kills_after_defense |-> a_kills, kills |-> a_deaths, army |-> A],
   B |-> [size_end |-> army_size(B), hits |-> b_hits, assigned_hits |-> b_assign,
          kills_after_defense |-> b_kills, kills |-> b_deaths, army |-> B]]

\* Lines 201-220: rounds.append(round_report); back to the loop test.
Report ==
  /\ pc = "report"
  /\ rounds' = Append(rounds, round_report)
  /\ pc' = "loop"
  /\ UNCHANGED <<heap, A_ref, B_ref, fixed, round_idx, locals, draws, summary>>

\* The winner decided by the survivor alone, without the test that the other
\* side is eliminated.
winner_survivor(a, b) ==
  IF army_size(a) > 0 THEN "A"
  ELSE IF army_size(b) > 0 THEN "B"
  ELSE "Draw/MaxRounds"

\* Lines 223-228: the winner for the two final armies.
winner(a, b) ==
  IF army_size(a) > 0 /\ army_size(b) = 0 THEN "A"
  ELSE IF army_size(b) > 0 /\ army_size(a) = 0 THEN "B"
  ELSE "Draw/MaxRounds"

\* Lines 222-241: the loop test fails; classify and build the summary.
Finish ==
  /\ pc = "loop"
  /\ ~LoopCond
  /\ summary' = [winner |-> winner(A, B), rounds |-> round_idx,
                 final_A |-> A, final_B |-> B,
                 final_sizes |-> [A |-> army_size(A), B |-> army_size(B)]]
  /\ pc' = "done"
  /\ UNCHANGED <<heap, A_ref, B_ref, fixed, rounds, round_idx, locals, draws>>

Next ==
  \/ Enter
  \/ EnterRound
  \/ AHits
  \/ AAssign
  \/ AKills
  \/ BHits
  \/ BAssign
  \/ BKills
  \/ ApplyB
  \/ ApplyA
  \/ Report
  \/ Finish

Spec == Init /\ [][Next]_vars

\* Termination is checked under weak fairness of the next step: the function
\* is single-threaded and synchronous, so a step that can run does run.
FairSpec == Spec /\ WF_vars(Next)

\* ------------------------------------------------------- function harness
\* The combat functions called on their own.  Their inputs are drawn from
\* bounded sets; the table _defense_resolution reads is the module-level
\* default_units, an input here like the arguments.

\* Hit assignments handed to _defense_resolution.
Assignments == UNION {[S -> 0..MaxHits] : S \in SUBSET UnitTypes}

InitFn ==
  /\ heap = [army_a |-> EmptyDict, army_b |-> EmptyDict, A |-> EmptyDict, B |-> EmptyDict]
  /\ in_a = EmptyDict
  /\ in_b = EmptyDict
  /\ A_ref = "A"
  /\ B_ref = "B"
  /\ unit_defs = DefaultUnits
  /\ max_rounds = 0
  /\ default_units \in Catalogs
  /\ rounds = <<>>
  /\ round_idx = 0
  /\ a_hits = 0 /\ a_assign = EmptyDict /\ a_kills = EmptyDict
  /\ b_hits = 0 /\ b_assign = EmptyDict /\ b_kills = EmptyDict
  /\ a_deaths = EmptyDict /\ b_deaths = EmptyDict
  /\ draws = <<>>
  /\ summary = NoSummary
  /\ pc = "harness"
  /\ fn_name = "none"
  /\ fn_in \in [defender : Armies, total_hits : -1..MaxHits, assigned_hits : Assignments]
  /\ fn_out = EmptyDict
  /\ fn_draws = 0
  /\ MkIdle
  /\ AlIdle

sim == <<heap, A_ref, B_ref, in_a, in_b, unit_defs, max_rounds, default_units,
         rounds, round_idx, a_hits, a_assign, a_kills, b_hits, b_assign,
         b_kills, a_deaths, b_deaths, draws, summary, pc, mkvars, alvars>>

\* One call of _distribute_hits_across_defender(defender, total_hits, rng).
CallDistribute ==
  /\ pc = "harness"
  /\ fn_name = "none"
  /\ fn_out' \in _distribute_hits_across_defender(fn_in.defender, fn_in.total_hits)
  /\ fn_draws' = DistributeDraws(fn_in.defender, fn_in.total_hits)
  /\ fn_name' = "distribute"
  /\ UNCHANGED <<sim, fn_in>>

\* One call of _defense_resolution(assigned_hits, rng).
CallDefense ==
  /\ pc = "harness"
  /\ fn_name = "none"
  /\ fn_out' \in _defense_resolution(fn_in.assigned_hits, default_units)
  /\ fn_draws' = DefenseDraws(fn_in.assigned_hits, default_units)
  /\ fn_name' = "defense"
  /\ UNCHANGED <<sim, fn_in>>

\* One call of _apply_kills(army, kills): the army is the harness's
\* `defender`, the nominal kills its `assigned_hits`; fn_out holds the army
\* after the in-place update and the returned casualties.
CallApplyKills ==
  /\ pc = "harness"
  /\ fn_name = "none"
  /\ fn_out' = _apply_kills(fn_in.defender, fn_in.assigned_hits)
  /\ fn_draws' = 0
  /\ fn_name' = "apply_kills"
  /\ UNCHANGED <<sim, fn_in>>

NextFn ==
  \/ CallDistribute
  \/ CallDefense
  \/ CallApplyKills

SpecFn == InitFn /\ [][NextFn]_vars

\* ------------------------------------------------------------- make_army

\* The names a specification may use: the catalog's and one no catalog has.
SpecNames == UnitTypes \cup {"Militia"}

\* The item sequences of a dict over SpecNames: distinct keys, any order,
\* integer counts from -1 to MaxArmySize.
SpecItems ==
  {s \in UNION {[1..n -> [unit_type : SpecNames, count : -1..MaxArmySize]] :
                  n \in 0..Cardinality(SpecNames)} :
     \A i \in DOMAIN s, j \in DOMAIN s : i # j => s[i].unit_type # s[j].unit_type}

\* The catalogs make_army is called with: the tables, whole or cut down.
MkCatalogs == {Restrict(c, S) : c \in Catalogs, S \in SUBSET UnitTypes}

\* d with d[k] = v, the key added when absent (Python's d[k] = v).
DictSet(d, k, v) == [t \in DOMAIN d \cup {k} |-> IF t = k THEN v ELSE d[t]]

\* The simulation and the function harness are not running.
BattleIdle ==
  /\ heap = [army_a |-> EmptyDict, army_b |-> EmptyDict, A |-> EmptyDict, B |-> EmptyDict]
  /\ in_a = EmptyDict /\ in_b = EmptyDict
  /\ A_ref = "A" /\ B_ref = "B"
  /\ unit_defs = DefaultUnits
  /\ max_rounds = 0
  /\ default_units = DefaultUnits
  /\ rounds = <<>>
  /\ round_idx = 0
  /\ a_hits = 0 /\ a_assign = EmptyDict /\ a_kills = EmptyDict
  /\ b_hits = 0 /\ b_assign = EmptyDict /\ b_kills = EmptyDict
  /\ a_deaths = EmptyDict /\ b_deaths = EmptyDict
  /\ draws = <<>>
  /\ summary = NoSummary
  /\ pc = "idle"
  /\ fn_name = "none" /\ fn_in = NoCall /\ fn_out = EmptyDict /\ fn_draws = 0

battle == <<heap, A_ref, B_ref, in_a, in_b, unit_defs, max_rounds, default_units,
            rounds, round_idx, a_hits, a_assign, a_kills, b_hits, b_assign,
            b_kills, a_deaths, b_deaths, draws, summary, pc,
            fn_name, fn_in, fn_out, fn_draws>>

\* make_army(spec, unit_defs) has been called: army = {} and the for loop
\* is about to take its first item.
InitMk ==
  /\ BattleIdle
  /\ AlIdle
  /\ mk_spec \in SpecItems
  /\ mk_defs \in MkCatalogs
  /\ mk_i = 0
  /\ mk_army = EmptyDict
  /\ mk_ret = "unset"
  /\ mk_pc = "loop"

\* The item the for loop takes next.
MkItem == mk_spec[mk_i + 1]

\* An unknown unit type is dropped instead of failing the construction.
MkRaise_drop ==
  /\ mk_pc = "loop"
  /\ mk_i < Len(mk_spec)
  /\ MkItem.count > 0
  /\ MkItem.unit_type \notin DOMAIN mk_defs
  /\ mk_i' = mk_i + 1
  /\ UNCHANGED <<battle, alvars, mk_spec, mk_defs, mk_army, mk_ret, mk_pc>>

\* if count <= 0: continue
MkSkip ==
  /\ mk_pc = "loop"
  /\ mk_i < Len(mk_spec)
  /\ MkItem.count <= 0
  /\ mk_i' = mk_i + 1
  /\ UNCHANGED <<battle, alvars, mk_spec, mk_defs, mk_army, mk_ret, mk_pc>>

\* if unit_type not in unit_defs: raise ValueError.  The exception leaves
\* the function: nothing is returned and the local army is dropped.
MkRaise ==
  /\ mk_pc = "loop"
  /\ mk_i < Len(mk_spec)
  /\ MkItem.count > 0
  /\ MkItem.unit_type \notin DOMAIN mk_defs
  /\ mk_pc' = "raised"
  /\ UNCHANGED <<battle, alvars, mk_spec, mk_defs, mk_i, mk_army, mk_ret>>

\* army[unit_type] = int(count)
MkAdd ==
  /\ mk_pc = "loop"
  /\ mk_i < Len(mk_spec)
  /\ MkItem.count > 0
  /\ MkItem.unit_type \in DOMAIN mk_defs
  /\ mk_army' = DictSet(mk_army, MkItem.unit_type, MkItem.count)
  /\ mk_i' = mk_i + 1
  /\ UNCHANGED <<battle, alvars, mk_spec, mk_defs, mk_ret, mk_pc>>

\* return army
MkReturn ==
  /\ mk_pc = "loop"
  /\ mk_i = Len(mk_spec)
  /\ mk_ret' = mk_army
  /\ mk_pc' = "returned"
  /\ UNCHANGED <<battle, alvars, mk_spec, mk_defs, mk_i, mk_army>>

NextMk ==
  \/ MkSkip
  \/ MkRaise
  \/ MkAdd
  \/ MkReturn

SpecMk == InitMk /\ [][NextMk]_vars

\* ---------------------------------------------------- allocate_with_unit0

\* The largest budget and the largest total_units of a call.
MaxBudget == 3
MaxUnits == 3
\* The largest cost, the largest proportion and the largest resource limit.
MaxCost == 2
MaxProp == 2
MaxResource == 1
\* The number of paid unit kinds (the length of costs and props).
NumPaid == 2

\* The values of unit0_share, in percent: 0.0, 0.4 and 1.0.
Shares == {0, 40, 100}

\* The sum of the sequence s.
RECURSIVE SumSeq(_)
SumSeq(s) == IF s = <<>> THEN 0 ELSE s[1] + SumSeq(Tail(s))

\* The least element of the nonempty set of integers S.
MinOf(S) == CHOOSE m \in S : \A n \in S : m <= n

\* Line 28: floor(unit0_share * total_units), the share in percent.
Unit0(share, total) == (share * total) \div 100

\* Lines 50-52: seq holds index i (0-based) props[i] times, for i = 0..k-1;
\* SeqUpTo(p, k) is its part for the first k kinds.
RECURSIVE SeqUpTo(_, _)
SeqUpTo(p, k) ==
  IF k = 0 THEN <<>>
  ELSE SeqUpTo(p, k - 1) \o [j \in 1..p[k] |-> k - 1]

\* Line 55: cheapest = min(costs) if costs else 0.
Cheapest(c) == IF c = <<>> THEN 0 ELSE MinOf({c[i] : i \in DOMAIN c})

\* The simulation, the function harness and make_army are not running.
OthersIdle == BattleIdle /\ MkIdle

others == <<battle, mkvars>>

\* allocate_with_unit0 has been called with its arguments bound.  The costs
\* are any integers from -1 and the proportions any from 0: the assertions
\* are still to run.  The sequences may differ in length by one.
InitAl ==
  /\ OthersIdle
  /\ budget \in -1..MaxBudget
  /\ total_units \in -1..MaxUnits
  /\ costs \in [1..NumPaid -> -1..MaxCost] \cup {<<1>>}
  /\ props \in [1..NumPaid -> 0..MaxProp]
  /\ unit0_share \in Shares
  /\ resource_limit \in {None} \cup {Some(n) : n \in -1..MaxResource}
  /\ resource_unit_index \in 0..NumPaid
  /\ AlUnbound
  /\ al_pc = "assert"

\* Lines 24-25: the two assertions.
Accepted ==
  /\ Len(costs) = Len(props)
  /\ \A i \in DOMAIN props : props[i] > 0
  /\ 0 <= resource_unit_index
  /\ resource_unit_index < Len(props)

\* Lines 24-25: both assertions hold.
AlAssertOk ==
  /\ al_pc = "assert"
  /\ Accepted
  /\ al_pc' = "packages"
  /\ UNCHANGED <<others, al_args, unit0, x_paid, budget_left, units_left,
                 resource_used, changed, result>>

\* Lines 24-25: an assertion fails; AssertionError leaves the function.
AlAssertFail ==
  /\ al_pc = "assert"
  /\ ~Accepted
  /\ al_pc' = "rejected"
  /\ UNCHANGED <<others, al_args, unit0, x_paid, budget_left, units_left,
                 resource_used, changed, result>>

\* Lines 36-41: the number of full packages, the least of the limits set by
\* the budget, by the paid-unit cap and, when given, by the resource.
FullPackages(cap) ==
  LET P == SumSeq(props)
      S == SumSeq([i \in DOMAIN costs |-> costs[i] * props[i]])
      r_per_pack == props[resource_unit_index + 1]
      limits == {IF S > 0 THEN budget \div S ELSE 0,
                 IF P > 0 THEN cap \div P ELSE 0}
                \cup (IF resource_limit.is_none THEN {}
                      ELSE {IF r_per_pack > 0
                            THEN resource_limit.value \div r_per_pack ELSE 0})
  IN MinOf(limits)

\* Lines 28-56: unit 0, the full packages and what they leave; seq and
\* cheapest are functions of the arguments; changed = True.
AlPackages ==
  /\ al_pc = "packages"
  /\ LET u0 == Unit0(unit0_share, total_units)
         paid_units_cap == Max(0, total_units - u0)
         P == SumSeq(props)
         S == SumSeq([i \in DOMAIN costs |-> costs[i] * props[i]])
         full_packages == FullPackages(paid_units_cap)
     IN /\ unit0' = u0
        /\ x_paid' = [i \in DOMAIN props |-> full_packages * props[i]]
        /\ budget_left' = budget - full_packages * S
        /\ units_left' = paid_units_cap - full_packages * P
        /\ resource_used' = full_packages * props[resource_unit_index + 1]
  /\ changed' = TRUE
  /\ al_pc' = "topup"
  /\ UNCHANGED <<others, al_args, result>>

\* The locals the top-up loop works on.
TopUpState ==
  [x_paid |-> x_paid, units_left |-> units_left, budget_left |-> budget_left,
   resource_used |-> resource_used, changed |-> changed]

\* Line 57: the while condition.
TopUpCond == changed /\ units_left > 0 /\ budget_left >= Cheapest(costs)

\* Lines 59-71: the for loop from position k of seq on, started in state st
\* (x_paid, units_left, budget_left, resource_used, changed).  `continue`
\* on a blocked resource unit skips the break test as well.
RECURSIVE ForSeq(_, _)
ForSeq(st, k) ==
  LET seq == SeqUpTo(props, Len(props))
  IN IF k > Len(seq) THEN st
     ELSE
       LET i == seq[k]
           blocked == /\ ~resource_limit.is_none
                      /\ i = resource_unit_index
                      /\ st.resource_used >= resource_limit.value
           add == st.units_left > 0 /\ st.budget_left >= costs[i + 1]
           st1 == IF add
                  THEN [x_paid |-> [st.x_paid EXCEPT ![i + 1] = @ + 1],
                        units_left |-> st.units_left - 1,
                        budget_left |-> st.budget_left - costs[i + 1],
                        resource_used |->
                          IF i = resource_unit_index /\ ~resource_limit.is_none
                          THEN st.resource_used + 1 ELSE st.resource_used,
                        changed |-> TRUE]
                  ELSE st
       IN IF blocked THEN ForSeq(st, k + 1)
          ELSE IF st1.units_left = 0 \/ st1.budget_left < Cheapest(costs) THEN st1
          ELSE ForSeq(st1, k + 1)

\* A pass that leaves the changed flag set whether or not it added a unit.
PassOf_sticky(st) == [ForSeq(st, 1) EXCEPT !.changed = TRUE]

\* Lines 58-71: one pass of the while body: changed = False, then the for
\* loop over seq.
PassOf(st) == ForSeq([st EXCEPT !.changed = FALSE], 1)

\* Lines 57-71: the while condition holds; one pass of the top-up.
AlPass ==
  /\ al_pc = "topup"
  /\ TopUpCond
  /\ LET st == PassOf(TopUpState)
     IN /\ x_paid' = st.x_paid
        /\ units_left' = st.units_left
        /\ budget_left' = st.budget_left
        /\ resource_used' = st.resource_used
        /\ changed' = st.changed
  /\ UNCHANGED <<others, al_args, unit0, result, al_pc>>

\* Lines 74-85: the while condition fails; build and return the result.
AlReturn ==
  /\ al_pc = "topup"
  /\ ~TopUpCond
  /\ LET total_cost == SumSeq([i \in DOMAIN costs |-> costs[i] * x_paid[i]])
         paid_units_used == SumSeq(x_paid)
     IN result' = [units |-> x_paid,
                   unit_0 |-> unit0,
                   total_cost |-> total_cost,
                   paid_units_used |-> paid_units_used,
                   total_units_used |-> paid_units_used + unit0,
                   units_unused |-> total_units - (paid_units_used + unit0),
                   budget_left |-> budget - total_cost,
                   resource_used |-> resource_used,
                   resource_left |->
                     IF resource_limit.is_none THEN None
                     ELSE Some(Max(0, resource_limit.value - resource_used)),
                   resource_limit |-> resource_limit]
  /\ al_pc' = "done"
  /\ UNCHANGED <<others, al_args, unit0, x_paid, budget_left, units_left,
                 resource_used, changed>>

NextAl ==
  \/ AlAssertOk
  \/ AlAssertFail
  \/ AlPackages
  \/ AlPass
  \/ AlReturn

SpecAl == InitAl /\ [][NextAl]_vars

\* ------------------------------------------------------------- properties
\* The two armies at the start of round i of the log: the caller's armies
\* for round 1, the previous record's snapshots after that.
PreA(i) == IF i = 1 THEN in_a ELSE rounds[i - 1].A.army
PreB(i) == IF i = 1 THEN in_b ELSE rounds[i - 1].B.army

\* The phases of a round that run before any casualty is applied.
ComputePhases == {"a_hits", "a_assign", "a_kills", "b_hits", "b_assign", "b_kills", "apply_b"}

\* C1 (Conservation): in every round of the log, for each side and every
\* category, the post-round count is the start-of-round count minus the
\* casualties _apply_kills returned for that army, and those casualties never
\* exceed the start-of-round count; absent categories count as 0.  Record
\* side "A" holds a_deaths (casualties of B), side "B" holds b_deaths.
C1_Conservation ==
  \A i \in 1..Len(rounds) : \A t \in UnitTypes :
    /\ Get(rounds[i].A.army, t) = Get(PreA(i), t) - Get(rounds[i].B.kills, t)
    /\ Get(rounds[i].B.army, t) = Get(PreB(i), t) - Get(rounds[i].A.kills, t)
    /\ Get(rounds[i].B.kills, t) <= Get(PreA(i), t)
    /\ Get(rounds[i].A.kills, t) <= Get(PreB(i), t)
    /\ Get(rounds[i].B.kills, t) >= 0
    /\ Get(rounds[i].A.kills, t) >= 0

\* A second round was logged in which the kills after defense exceeded what
\* was available (the casualties were clamped) and both sides lost units.
C1_Witness ==
  /\ Len(rounds) = 2
  /\ \E i \in 1..Len(rounds) :
       /\ rounds[i].A.kills # rounds[i].A.kills_after_defense
       /\ rounds[i].A.kills # EmptyDict
       /\ rounds[i].B.kills # EmptyDict

C3_Winner ==
  pc = "done" =>
    LET sa == army_size(summary.final_A)
        sb == army_size(summary.final_B)
    IN /\ summary.winner \in {"A", "B", "Draw/MaxRounds"}
       /\ summary.winner = "A" <=> (sb = 0 /\ sa > 0)
       /\ summary.winner = "B" <=> (sa = 0 /\ sb > 0)
       /\ summary.winner = "Draw/MaxRounds" <=> ~(sb = 0 /\ sa > 0) /\ ~(sa = 0 /\ sb > 0)
       /\ summary.final_sizes = [A |-> sa, B |-> sb]

\* A draw at the round bound with both sides alive after a round with losses.
C3_Witness ==
  /\ pc = "done"
  /\ summary.winner = "Draw/MaxRounds"
  /\ summary.final_sizes.A > 0
  /\ summary.final_sizes.B > 0
  /\ summary.rounds >= 1
  /\ summary.final_A # in_a

\* C4 (Simultaneous resolution): while a round's hits, assignments and
\* penetrating hits are being computed, both armies are as they stood at the
\* start of the round, and each value already computed is an outcome of its
\* function on those start-of-round armies: B's return fire comes from B's
\* full start-of-round counts.
C4_Simultaneous ==
  pc \in ComputePhases =>
    LET i == Len(rounds) + 1
    IN /\ A = PreA(i)
       /\ B = PreB(i)
       /\ pc \notin {"a_hits"} => a_hits \in _attacks_to_hits(PreA(i), default_units)
       /\ pc \notin {"a_hits", "a_assign"} =>
            a_assign \in _distribute_hits_across_defender(PreB(i), a_hits)
       /\ pc \notin {"a_hits", "a_assign", "a_kills"} =>
            a_kills \in _defense_resolution(a_assign, default_units)
       /\ pc \in {"b_assign", "b_kills", "apply_b"} =>
            b_hits \in _attacks_to_hits(PreB(i), default_units)
       /\ pc \in {"b_kills", "apply_b"} =>
            b_assign \in _distribute_hits_across_defender(PreA(i), b_hits)
       /\ pc = "apply_b" => b_kills \in _defense_resolution(b_assign, default_units)

\* A round in which A wiped out B, and B, firing with its full start-of-round
\* strength, still inflicted casualties on A.
C4_Witness ==
  /\ pc = "loop"
  /\ Len(rounds) >= 1
  /\ LET i == Len(rounds)
     IN /\ rounds[i].B.size_end = 0
        /\ rounds[i].B.hits = army_size(PreB(i))
        /\ rounds[i].B.hits = 2
        /\ rounds[i].B.kills # EmptyDict

\* C8 (Inputs never mutated): when simulate_battle has returned, the caller's
\* army_a and army_b hold exactly what they held at the call; the locals A
\* and B are objects of their own.
C8_InputsNotMutated ==
  pc = "done" =>
    /\ heap["army_a"] = in_a
    /\ heap["army_b"] = in_b
    /\ A_ref \notin {"army_a", "army_b"}
    /\ B_ref \notin {"army_a", "army_b"}

\* The battle returned after two rounds with casualties applied on both sides.
C8_Witness ==
  /\ pc = "done"
  /\ summary.rounds = 2
  /\ summary.final_A # in_a
  /\ summary.final_B # in_b

\* C5 (Distribution exactness): a call of _distribute_hits_across_defender
\* on a defender of positive total count with total_hits > 0 returns an
\* assignment that sums to total_hits and names only categories present in
\* the defender with count > 0; with total count 0 or total_hits <= 0 the
\* assignment is empty and no draw is made.
C5_DistributionExact ==
  fn_name = "distribute" =>
    LET d == fn_in.defender
        n == fn_in.total_hits
    IN /\ (army_size(d) > 0 /\ n > 0) =>
            /\ SumValues(fn_out) = n
            /\ \A t \in DOMAIN fn_out : t \in DOMAIN d /\ d[t] > 0
       /\ (army_size(d) = 0 \/ n <= 0) =>
            /\ fn_out = EmptyDict
            /\ fn_draws = 0

\* Two hits were split one each over a defender with two living categories.
C5_Witness ==
  /\ fn_name = "distribute"
  /\ fn_in.total_hits = 2
  /\ fn_in.defender = [Peasants |-> 1, Knights |-> 1]
  /\ fn_out = [Peasants |-> 1, Knights |-> 1]
  /\ fn_draws = 1

\* C6 (Defense clamp): the penetrating hits _defense_resolution returns for a
\* category are positive (zero is omitted) and never exceed the hits
\* assigned to it; a category whose defense probability is 1 yields none and
\* one whose defense probability is 0 yields all its assigned hits.  The
\* defense probability is that of the table the function reads.
C6_DefenseClamp ==
  fn_name = "defense" =>
    LET assigned == fn_in.assigned_hits
    IN /\ \A t \in DOMAIN fn_out :
            /\ t \in DOMAIN assigned
            /\ fn_out[t] > 0
            /\ fn_out[t] <= assigned[t]
       /\ \A t \in DOMAIN assigned :
            /\ default_units[t].defense = 100 => Get(fn_out, t) = 0
            /\ default_units[t].defense = 0 => Get(fn_out, t) = assigned[t]

\* Two hits on each category under the boundary table: the category with
\* defense 0 takes both, the one with defense 100 takes none.
C6_Witness ==
  /\ fn_name = "defense"
  /\ default_units = AltUnits
  /\ fn_in.assigned_hits = [Peasants |-> 2, Knights |-> 2]
  /\ fn_out = [Peasants |-> 2]

\* C7 (Explicit catalog): the hit totals and penetrating hits of a round are
\* outcomes of hit generation and defense resolution under the catalog passed
\* to simulate_battle as unit_defs.
C7_ExplicitCatalog ==
  /\ pc = "a_assign" => a_hits \in _attacks_to_hits(A, unit_defs)
  /\ pc = "b_hits" => a_kills \in _defense_resolution(a_assign, unit_defs)
  /\ pc = "b_assign" => b_hits \in _attacks_to_hits(B, unit_defs)
  /\ pc = "apply_b" => b_kills \in _defense_resolution(b_assign, unit_defs)

\* C9 (Zero-attack stalemate): when both armies are alive, max_rounds >= 0
\* and every living category on both sides has attack probability 0 in the
\* catalog of the battle, the battle ends at the round bound as a draw with
\* both final armies equal to the initial ones.
C9_ZeroAttackStalemate ==
  ( /\ pc = "done"
    /\ max_rounds >= 0
    /\ army_size(in_a) > 0
    /\ army_size(in_b) > 0
    /\ \A t \in alive_types(in_a) \cup alive_types(in_b) : unit_defs[t].attack = 0 )
  => /\ summary.rounds = max_rounds
     /\ summary.winner = "Draw/MaxRounds"
     /\ summary.final_A = in_a
     /\ summary.final_B = in_b

\* C10 (Deterministic elimination): with side A one unit of one category of
\* attack probability 1 and side B one unit of one category of defense
\* probability 0 (in the catalog of the battle) and at least one round
\* allowed, round 1 produces 1 hit, assigns it to B's category, 1 hit
\* penetrates, B is eliminated, and the summary has winner A and rounds 1.
C10_DeterministicElimination ==
  ( /\ pc = "done"
    /\ max_rounds >= 1
    /\ \E ta \in UnitTypes, tb \in UnitTypes :
         /\ in_a = [t \in {ta} |-> 1]
         /\ in_b = [t \in {tb} |-> 1]
         /\ unit_defs[ta].attack = 100
         /\ unit_defs[tb].defense = 0 )
  => /\ Len(rounds) >= 1
     /\ rounds[1].A.hits = 1
     /\ rounds[1].A.assigned_hits = in_b
     /\ rounds[1].A.kills_after_defense = in_b
     /\ rounds[1].A.kills = in_b
     /\ summary.final_B = EmptyDict
     /\ summary.winner = "A"
     /\ summary.rounds = 1

\* C11 (Overkill clamp): a call of _apply_kills on a category with current
\* count c > 0 and nominal kills k > 0 returns min(k, c) casualties for it,
\* leaves c - min(k, c) >= 0, and removes the category exactly when k >= c.
C11_OverkillClamp ==
  fn_name = "apply_kills" =>
    \A t \in UnitTypes :
      LET c == Get(fn_in.defender, t)
          k == Get(fn_in.assigned_hits, t)
          m == IF k <= c THEN k ELSE c
      IN (c > 0 /\ k > 0) =>
           /\ t \in DOMAIN fn_out.actual_kills
           /\ fn_out.actual_kills[t] = m
           /\ Get(fn_out.army, t) = c - m
           /\ Get(fn_out.army, t) >= 0
           /\ (t \notin DOMAIN fn_out.army) <=> (k >= c)

\* Two nominal kills on a category of one unit, next to a category that
\* survives: one casualty applied, the category removed.
C11_Witness ==
  /\ fn_name = "apply_kills"
  /\ fn_in.defender = [Peasants |-> 1, Knights |-> 1]
  /\ fn_in.assigned_hits = [Peasants |-> 2]
  /\ fn_out.actual_kills = [Peasants |-> 1]
  /\ fn_out.army = [Knights |-> 1]

\* The entries of the specification with a positive count.
MkPositive == {i \in DOMAIN mk_spec : mk_spec[i].count > 0}

RoundDraws(preA, preB, ah, aa, bh, ba) ==
  LET d1 == Append_n(<<>>, "a_hits", AttackDraws(preA, default_units))
      d2 == Append_n(d1, "a_assign", DistributeDraws(preB, ah))
      d3 == Append_n(d2, "a_kills", DefenseDraws(aa, default_units))
      d4 == Append_n(d3, "b_hits", AttackDraws(preB, default_units))
      d5 == Append_n(d4, "b_assign", DistributeDraws(preA, bh))
  IN Append_n(d5, "b_kills", DefenseDraws(ba, default_units))

\* The draws of the logged rounds 1..n, round after round.
RECURSIVE LoggedDraws(_)
LoggedDraws(n) ==
  IF n = 0 THEN <<>>
  ELSE LoggedDraws(n - 1) \o
       RoundDraws(PreA(n), PreB(n), rounds[n].A.hits, rounds[n].A.assigned_hits,
                  rounds[n].B.hits, rounds[n].B.assigned_hits)

\* C13 (Fixed draw order): the random source is consumed, round after round,
\* in the order A's hit generation, A's distribution, A's defense resolution,
\* B's hit generation, B's distribution, B's defense resolution; the two
\* casualty applications and the report that follow consume nothing.
C13_FixedDrawOrder ==
  /\ pc \in {"loop", "done"} => draws = LoggedDraws(Len(rounds))
  /\ pc \in {"apply_b", "apply_a", "report"} =>
       draws = LoggedDraws(Len(rounds)) \o
               RoundDraws(PreA(round_idx), PreB(round_idx),
                          a_hits, a_assign, b_hits, b_assign)

\* Two full rounds in which every phase of both sides drew once.
C13_Witness ==
  /\ pc = "done"
  /\ Len(rounds) = 2
  /\ draws = <<"a_hits", "a_assign", "a_kills", "b_hits", "b_assign", "b_kills",
               "a_hits", "a_assign", "a_kills", "b_hits", "b_assign", "b_kills">>

\* The army invariant: no entry with a count <= 0.
ArmyInvariant(army) == \A t \in DOMAIN army : army[t] > 0

\* C15 (Army invariant): when both armies handed to simulate_battle satisfy
\* the army invariant, as those built by make_army do, then so do the loop's
\* armies A and B in every state, every army snapshot of the round log and
\* both final armies of the summary: an exhausted category is absent.
C15_ArmyInvariant ==
  (ArmyInvariant(in_a) /\ ArmyInvariant(in_b)) =>
    /\ ArmyInvariant(A) /\ ArmyInvariant(B)
    /\ \A i \in DOMAIN rounds :
         ArmyInvariant(rounds[i].A.army) /\ ArmyInvariant(rounds[i].B.army)
    /\ pc = "done" => ArmyInvariant(summary.final_A) /\ ArmyInvariant(summary.final_B)

\* A battle between two well-formed armies in which A lost a whole category
\* in the first round and fought on: the category is gone from the
\* snapshot of that round and from the final army.
C15_Witness ==
  /\ pc = "done"
  /\ in_a = [Peasants |-> 1, Knights |-> 1]
  /\ ArmyInvariant(in_b)
  /\ Len(rounds) = 2
  /\ DOMAIN rounds[1].A.army = {"Knights"}
  /\ DOMAIN summary.final_A = {"Knights"}

\* C17 (Round log shape): at termination the log holds exactly summary.rounds
\* records and the i-th carries round index i; one record is appended per
\* executed round (the log is as long as the round counter between rounds and
\* one shorter within a round); and no step changes a record already logged.
C17_RoundLogShape ==
  /\ [](/\ pc = "done" => Len(rounds) = summary.rounds
        /\ \A i \in DOMAIN rounds : rounds[i].round = i
        /\ pc \in {"loop", "done"} => Len(rounds) = round_idx
        /\ pc \in {"a_hits", "a_assign", "a_kills", "b_hits", "b_assign",
                   "b_kills", "apply_b", "apply_a", "report"} =>
             Len(rounds) = round_idx - 1)
  /\ [][/\ Len(rounds') >= Len(rounds)
        /\ SubSeq(rounds', 1, Len(rounds)) = rounds]_vars

\* A battle of two rounds whose second round changed army A: the first
\* record still shows A as it stood after round one.
C17_Witness ==
  /\ pc = "done"
  /\ summary.rounds = 2
  /\ Len(rounds) = 2
  /\ rounds[1].A.army # summary.final_A
  /\ rounds[1].A.army = [Peasants |-> 1, Knights |-> 1]

\* C18 (Stop exactly at elimination or bound): for max_rounds >= 0 a round
\* starts only with both armies alive, so only the last record of the log can
\* show a side of size 0; a battle ending with both sides alive reports
\* max_rounds rounds, and one reporting fewer has an empty final army.
C18_StopAtEliminationOrBound ==
  max_rounds >= 0 =>
    /\ pc = "a_hits" => army_size(A) > 0 /\ army_size(B) > 0
    /\ \A i \in 1..(Len(rounds) - 1) :
         rounds[i].A.size_end > 0 /\ rounds[i].B.size_end > 0
    /\ (pc = "done" /\ summary.final_sizes.A > 0 /\ summary.final_sizes.B > 0) =>
         summary.rounds = max_rounds
    /\ (pc = "done" /\ summary.rounds < max_rounds) =>
         summary.final_sizes.A = 0 \/ summary.final_sizes.B = 0

\* With two rounds allowed, B was eliminated in the first and the battle
\* stopped there.
C18_Witness ==
  /\ pc = "done"
  /\ max_rounds = 2
  /\ summary.rounds = 1
  /\ army_size(in_a) > 0 /\ army_size(in_b) > 0
  /\ rounds[1].B.size_end = 0
  /\ summary.final_sizes.A > 0

\* Army `later` holds no category that `earlier` lacks and no larger count.
Attrition(earlier, later) ==
  /\ DOMAIN later \subseteq DOMAIN earlier
  /\ \A t \in DOMAIN later : later[t] <= earlier[t]

\* C19 (Monotone attrition): from the start of the battle through every
\* logged round to the loop's current armies and the final armies, no count
\* rises, no category absent at the start or removed earlier comes back, and
\* the logged sizes of each side never increase.
C19_MonotoneAttrition ==
  /\ \A i \in DOMAIN rounds :
       /\ Attrition(PreA(i), rounds[i].A.army)
       /\ Attrition(PreB(i), rounds[i].B.army)
       /\ Attrition(in_a, rounds[i].A.army)
       /\ Attrition(in_b, rounds[i].B.army)
       /\ i > 1 => /\ rounds[i].A.size_end <= rounds[i - 1].A.size_end
                   /\ rounds[i].B.size_end <= rounds[i - 1].B.size_end
  /\ pc # "start" => /\ Attrition(PreA(Len(rounds) + 1), A)
                     /\ Attrition(PreB(Len(rounds) + 1), B)
  /\ pc = "done" => /\ Attrition(PreA(Len(rounds) + 1), summary.final_A)
                    /\ Attrition(PreB(Len(rounds) + 1), summary.final_B)

\* Army A lost one category in the first round and the other in the second.
C19_Witness ==
  /\ pc = "done"
  /\ in_a = [Peasants |-> 1, Knights |-> 1]
  /\ Len(rounds) = 2
  /\ rounds[1].A.army = [Knights |-> 1]
  /\ rounds[2].A.army = EmptyDict
  /\ rounds[2].A.size_end = 0

\* The premise of the allocator's limits: a non-negative budget and
\* total_units, positive costs and proportions, a share in [0, 1].
AlPremise ==
  /\ budget >= 0
  /\ total_units >= 0
  /\ \A i \in DOMAIN costs : costs[i] > 0
  /\ \A i \in DOMAIN props : props[i] > 0
  /\ unit0_share >= 0 /\ unit0_share <= 100

\* C16 (Allocator limits): a call of allocate_with_unit0 under the premise
\* returns unit_0 = floor(unit0_share * total_units), every unit_i >= 0,
\* total_cost <= budget, paid_units_used <= total_units - unit_0 and, when a
\* resource_limit is given, at most resource_limit resource-consuming units.
C16_AllocatorLimits ==
  (al_pc = "done" /\ AlPremise) =>
    /\ result.unit_0 = (unit0_share * total_units) \div 100
    /\ \A i \in DOMAIN result.units : result.units[i] >= 0
    /\ result.total_cost <= budget
    /\ result.paid_units_used <= total_units - result.unit_0
    /\ ~resource_limit.is_none =>
         result.units[resource_unit_index + 1] <= resource_limit.value

\* C20 (Allocator top-up terminates): in every call the assertions accept,
\* a zero or negative cheapest cost and a blocked resource unit included,
\* each pass the top-up loop is about to make either adds a unit, lowering
\* units_left (positive by the loop test) and keeping it >= 0, or adds none
\* and clears the changed flag, after which the loop test fails.
C20_TopUpTerminates ==
  /\ al_pc \in {"packages", "topup", "done"} => Accepted
  /\ (al_pc = "topup" /\ ~changed) => ~TopUpCond
  /\ (al_pc = "topup" /\ TopUpCond) =>
       LET st == PassOf(TopUpState)
       IN \/ /\ st.units_left < units_left
             /\ st.units_left >= 0
             /\ SumSeq(st.x_paid) = SumSeq(x_paid) + (units_left - st.units_left)
          \/ /\ ~st.changed
             /\ st.x_paid = x_paid
             /\ st.units_left = units_left

\* A call returned after a pass that added nothing: the cheapest unit is
\* free but is the resource-consuming one and blocked by its limit, and the
\* other is beyond the budget left, with units still to place.
C20_Witness ==
  /\ al_pc = "done"
  /\ Cheapest(costs) = 0
  /\ costs[resource_unit_index + 1] = 0
  /\ ~resource_limit.is_none
  /\ resource_limit.value >= 0
  /\ resource_used >= resource_limit.value
  /\ units_left > 0
  /\ budget_left >= 0
  /\ result.paid_units_used > 0
  /\ ~changed

====
